---- MODULE Spec2Model ----
(***************************************************************************)
(* Materialized-path tree plugin (lib/tree.js): the pre-save and           *)
(* pre-remove middleware that maintain `parent` and `path`, the store      *)
(* they talk to, and the query accessors.                                  *)
(*                                                                         *)
(* Strings are sequences of one-character strings, so that the regular     *)
(* expressions, substr, replace and split of the source are computed on    *)
(* characters, as the source computes them.                                *)
(***************************************************************************)
EXTENDS Integers, Sequences, FiniteSets, TLC

VARIABLES store, onDelete, op, pending, query, concurrent, ops, faults

vars == <<store, onDelete, op, pending, query, concurrent, ops, faults>>

----------------------------------------------------------------------------
(* Configuration and identifiers                                           *)

\* options.pathSeparator, default '#'
pathSeparator == <<"#">>

\* The parent field is a Schema.ObjectId, so the ids that take part in a
\* tree are ObjectIds; _id.toString() is a hex string of one fixed width.
\* Four ids, of width two here.
IdA == <<"1", "a">>
IdB == <<"1", "b">>
IdC == <<"2", "a">>
IdD == <<"2", "b">>
Ids == {IdA, IdB, IdC, IdD}

\* The driver generates ObjectIds in increasing order.
IdOrder == <<IdA, IdB, IdC, IdD>>

\* A null / unset parent, and an absent path (both falsy in the source).
NoParent == <<>>
NoPath == <<>>

\* Longest path, in segments, that the model lets an operation produce.
MaxLevel == 4

\* Number of save and remove operations in one run of the model.
MaxOps == 5

\* Number of store calls that fail in one run of a store that may fail.
MaxFaults == 1

\* The callers that may have an operation running.
Slots == {1, 2}

----------------------------------------------------------------------------
(* String primitives of the source                                          *)

\* String(undefined), as in '^' + previousPath + pathSeparator on a new doc
UndefinedStr == <<"u", "n", "d", "e", "f", "i", "n", "e", "d">>

ToStr(s) == IF s = NoPath THEN UndefinedStr ELSE s

\* s.substr(n)
Substr(s, n) == SubSeq(s, n + 1, Len(s))

\* s starts with p  (the regex '^' + p)
StartsWith(s, p) == Len(p) <= Len(s) /\ SubSeq(s, 1, Len(p)) = p

\* positions at which sub occurs in s
Occurrences(s, sub) ==
    {i \in 1..(Len(s) - Len(sub) + 1) : SubSeq(s, i, i + Len(sub) - 1) = sub}

\* the unanchored regex sub
Contains(s, sub) == Occurrences(s, sub) # {}

Min(S) == CHOOSE x \in S : \A y \in S : x <= y

\* s.replace(sub, ''): the first occurrence only
ReplaceFirst(s, sub) ==
    IF ~Contains(s, sub) THEN s
    ELSE LET i == Min(Occurrences(s, sub))
         IN SubSeq(s, 1, i - 1) \o SubSeq(s, i + Len(sub), Len(s))

\* s.split(sep), sep one character
RECURSIVE Split(_, _)
Split(s, sep) ==
    LET cut == {i \in 1..Len(s) : <<s[i]>> = sep}
    IN IF cut = {} THEN <<s>>
       ELSE LET i == Min(cut)
            IN <<SubSeq(s, 1, i - 1)>> \o Split(SubSeq(s, i + 1, Len(s)), sep)

\* ids.pop()
Pop(q) == SubSeq(q, 1, Len(q) - 1)

----------------------------------------------------------------------------
(* The store: a collection of records keyed by _id                          *)

Rec(parent, path) == [parent |-> parent, path |-> path]

Put(st, id, rec) ==
    [x \in (DOMAIN st) \cup {id} |-> IF x = id THEN rec ELSE st[x]]

Del(st, S) == [x \in (DOMAIN st) \ S |-> st[x]]

EmptyStore == [x \in {} |-> Rec(NoParent, NoPath)]

\* As SetField, were the update document to lack $set: the record is
\* replaced by the one field.
SetFieldWholeDocument(st, id, field, value) ==
    IF id \notin DOMAIN st THEN st
    ELSE IF field = "path" THEN Put(st, id, Rec(NoParent, value))
    ELSE Put(st, id, Rec(value, NoPath))

\* collection.update({_id: id}, {$set: {field: value}}): no match, no change
SetField(st, id, field, value) ==
    IF id \notin DOMAIN st THEN st
    ELSE IF field = "path" THEN Put(st, id, Rec(st[id].parent, value))
    ELSE Put(st, id, Rec(value, st[id].path))

\* a point update in flight
Update(s, id, field, value) ==
    [slot |-> s, id |-> id, field |-> field, value |-> value]

\* a record as a cursor hands it over
Doc(st, id) == [id |-> id, path |-> st[id].path]

----------------------------------------------------------------------------
(* Filters                                                                  *)

\* As SubtreeFilter, were the pattern to stop at the next separator: the
\* direct children only.
SubtreeFilterOneLevel(docPath, path) ==
    /\ StartsWith(docPath, ToStr(path) \o pathSeparator)
    /\ ~Contains(Substr(docPath, Len(ToStr(path)) + 1), pathSeparator)

\* As SubtreeFilter, were the pattern the node's id alone, unanchored.
SubtreeFilterOwnId(docPath, path) ==
    Contains(docPath, Split(ToStr(path), pathSeparator)
                        [Len(Split(ToStr(path), pathSeparator))])

\* As SubtreeFilter, were the pattern to lack the trailing separator.
SubtreeFilterNoSeparator(docPath, path) == StartsWith(docPath, ToStr(path))

\* { path: { $regex: '^' + path + pathSeparator } }   (lines 64, 95, 144)
SubtreeFilter(docPath, path) == StartsWith(docPath, ToStr(path) \o pathSeparator)

\* { path: { $regex: previousParent + pathSeparator } }   (line 113): not
\* anchored; on ids of one width it matches whole segments only
SegmentFilter(docPath, id) == Contains(docPath, id \o pathSeparator)

\* As ParentFilter, were the filter { parent: { $ne: null } }.
ParentFilterAnyParent(docParent, id) == docParent # NoParent

\* { parent: id }   (lines 103, 144)
ParentFilter(docParent, id) == docParent = id

----------------------------------------------------------------------------
(* level virtual                                                            *)

\* As virtualPropLevel, were it to count the separators.
LevelCountsSeparators(path) ==
    IF path # NoPath THEN Len(Split(path, pathSeparator)) - 1 ELSE 0

virtualPropLevel(path) ==
    IF path # NoPath THEN Len(Split(path, pathSeparator)) ELSE 0

----------------------------------------------------------------------------
(* State                                                                    *)
(*   store      the collection                                              *)
(*   onDelete   options.onDelete                                            *)
(*   op[s]      caller s's save or remove: the document in memory (id,      *)
(*              parent, path, isNew), the middleware's locals               *)
(*              (isParentChange, previousPath), the cursor it is            *)
(*              streaming (scan), where it stands (pc) and what it          *)
(*              reported (result); pre is the store when it began           *)
(*   pending    point updates issued and not yet applied by the store       *)
(*   query      the last accessor call and what it returned                 *)
(*   concurrent whether callers may overlap their operations                *)
(*   ops        how many saves and removes have been started                *)
(*   faults     how many store calls the store may still fail               *)
(* op[s].failed records that a store call of the operation's cascade has    *)
(* failed. next is honoured once: the hook runner ignores a later call.     *)

IdleOp ==
    [kind |-> "none", pc |-> "idle", id |-> <<>>, isNew |-> FALSE,
     isParentChange |-> FALSE, parent |-> NoParent, path |-> NoPath,
     previousPath |-> NoPath, scan |-> {}, pre |-> EmptyStore,
     result |-> "none", failed |-> FALSE]

NoQuery ==
    [kind |-> "none", id |-> <<>>, recursive |-> "omitted", docs |-> {},
     list |-> <<>>, level |-> 0]

Busy(s) == op[s].pc \notin {"idle", "done", "thrown"}

Quiescent == pending = {} /\ \A s \in Slots : ~Busy(s)

\* A caller starts an operation when its previous one has ended; callers
\* that do not overlap wait for the store to have settled. Callers that
\* overlap run one operation each, caller 1 starting first.
CanStart(s) ==
    /\ ~Busy(s)
    /\ IF concurrent THEN op[s].pc = "idle" /\ (s = 1 \/ op[1].pc # "idle")
       ELSE s = 1 /\ Quiescent
    /\ ops < MaxOps

\* The ids in use: stored, or of a document a running save is creating
Taken == DOMAIN store \cup {op[s].id : s \in {t \in Slots : Busy(t)}}

\* The id of a document that is not in the store: the next one generated.
Fresh(id) ==
    \E i \in 1..Len(IdOrder) :
       /\ IdOrder[i] = id
       /\ id \notin Taken
       /\ \A j \in 1..(i - 1) : IdOrder[j] \in Taken

Loadable(id) == id \in DOMAIN store \/ Fresh(id)

Init ==
    /\ store = EmptyStore
    /\ onDelete \in {"REPARENT", "DELETE"}
    /\ op = [s \in Slots |-> IdleOp]
    /\ pending = {}
    /\ query = NoQuery
    /\ concurrent = FALSE
    /\ ops = 0
    /\ faults = 0

----------------------------------------------------------------------------
(* Path codec of the middleware                                             *)

\* this._id.toString()   (line 51)
RootPath(id) == id

\* As ChildPath, were the separator left out.
ChildPathNoSeparator(parentPath, id) == parentPath \o id

\* doc.path + pathSeparator + self._id.toString()   (line 60)
ChildPath(parentPath, id) == parentPath \o pathSeparator \o id

\* As RewritePrefix, were the separator cut off with the previous path.
RewritePrefixPastSeparator(docPath, previousPath, newPath) ==
    newPath \o Substr(docPath, Len(previousPath) + 1)

\* self.path + doc.path.substr(previousPath.length)   (line 69)
RewritePrefix(docPath, previousPath, newPath) ==
    newPath \o Substr(docPath, Len(previousPath))

\* As SpliceSegment, were the id replaced without its separator.
SpliceSegmentIdOnly(docPath, id) == ReplaceFirst(docPath, id)

\* doc.path.replace(previousParent + pathSeparator, '')   (line 117)
SpliceSegment(docPath, id) == ReplaceFirst(docPath, id \o pathSeparator)

\* The documents a cursor over the store yields for the subtree filter
ScanSubtree(st, path) ==
    {Doc(st, x) : x \in {y \in DOMAIN st : SubtreeFilter(st[y].path, path)}}

\* The documents a cursor over the store yields for the segment filter
ScanSegment(st, id) ==
    {Doc(st, x) : x \in {y \in DOMAIN st : SegmentFilter(st[y].path, id)}}

\* The documents a cursor over the store yields for a filter on parent
ScanParent(st, id) ==
    {Doc(st, x) : x \in {y \in DOMAIN st : ParentFilter(st[y].parent, id)}}

\* The paths a save of id under newParent would write stay within MaxLevel.
WithinBound(id, newParent) ==
    LET old == IF id \in DOMAIN store THEN store[id].path ELSE NoPath
        new == IF newParent \in DOMAIN store
               THEN ChildPath(store[newParent].path, id) ELSE RootPath(id)
    IN /\ virtualPropLevel(new) <= MaxLevel
       /\ \A d \in ScanSubtree(store, old) :
            virtualPropLevel(RewritePrefix(d.path, old, new)) <= MaxLevel

----------------------------------------------------------------------------
(* Pre-save middleware (lines 46-84) and the save it guards                 *)

\* lines 46-55 and 81-83: a new document, or a stored one loaded and given
\* newParent
preSave(s, id, newParent) ==
    LET isNew == id \notin DOMAIN store
        loaded == IF isNew THEN Rec(NoParent, NoPath) ELSE store[id]
        isParentChange == IF isNew THEN newParent # NoParent
                          ELSE newParent # loaded.parent
        rebuild == isNew \/ isParentChange
        root == rebuild /\ newParent = NoParent
    IN /\ CanStart(s)
       /\ Loadable(id)
       /\ WithinBound(id, newParent)
       /\ ops' = ops + 1
       /\ op' = [op EXCEPT ![s] =
                   [kind |-> "save",
                    pc |-> IF rebuild /\ ~root THEN "findOne" ELSE "commit",
                    id |-> id, isNew |-> isNew,
                    isParentChange |-> isParentChange,
                    parent |-> newParent,
                    path |-> IF root THEN RootPath(id) ELSE loaded.path,
                    previousPath |-> NoPath, scan |-> {}, pre |-> store,
                    result |-> "none", failed |-> FALSE]]
       /\ query' = NoQuery
       /\ UNCHANGED <<store, onDelete, pending, concurrent, faults>>

\* lines 56-62 and 77-79: the parent lookup answers. A parent that is not
\* in the store answers null, and doc.path throws a TypeError inside the
\* callback: next is never called.
findOneCallback(s) ==
    /\ op[s].kind = "save" /\ op[s].pc = "findOne"
    /\ IF op[s].parent \notin DOMAIN store
       THEN op' = [op EXCEPT ![s].pc = "thrown", ![s].result = "TypeError"]
       ELSE op' = [op EXCEPT
                     ![s].previousPath = op[s].path,
                     ![s].path = ChildPath(store[op[s].parent].path, op[s].id),
                     ![s].pc = IF op[s].isParentChange THEN "find"
                               ELSE "commit"]
    /\ UNCHANGED <<store, onDelete, pending, query, concurrent, ops, faults>>

\* lines 64-67: the cursor over the descendants of the previous path
findCallback(s) ==
    /\ op[s].kind = "save" /\ op[s].pc = "find"
    /\ op' = [op EXCEPT ![s].scan = ScanSubtree(store, op[s].previousPath),
                        ![s].pc = "stream"]
    /\ UNCHANGED <<store, onDelete, pending, query, concurrent, ops, faults>>

\* lines 68-73: one document of the cursor, one point update issued
saveStreamOnData(s) ==
    /\ op[s].kind = "save" /\ op[s].pc = "stream"
    /\ \E d \in op[s].scan :
         /\ pending' = pending \cup
              {Update(s, d.id, "path",
                      RewritePrefix(d.path, op[s].previousPath, op[s].path))}
         /\ op' = [op EXCEPT ![s].scan = op[s].scan \ {d}]
    /\ UNCHANGED <<store, onDelete, query, concurrent, ops, faults>>

\* line 74: the cursor is exhausted, next(); a next that follows a
\* next(err) is ignored
saveStreamOnClose(s) ==
    /\ op[s].kind = "save" /\ op[s].pc = "stream"
    /\ op[s].scan = {}
    /\ op' = [op EXCEPT ![s].pc = IF op[s].result = "error" THEN "done"
                                  ELSE "commit"]
    /\ UNCHANGED <<store, onDelete, pending, query, concurrent, ops, faults>>

\* after next(): the document itself is written (insert, or $set of the
\* fields the save changed) and the save reports to its caller
save(s) ==
    /\ op[s].kind = "save" /\ op[s].pc = "commit"
    /\ store' =
         IF op[s].isNew THEN Put(store, op[s].id, Rec(op[s].parent, op[s].path))
         ELSE IF op[s].id \notin DOMAIN store THEN store
         ELSE Put(store, op[s].id,
                  Rec(IF op[s].isParentChange THEN op[s].parent
                      ELSE store[op[s].id].parent,
                      IF op[s].path # op[s].pre[op[s].id].path THEN op[s].path
                      ELSE store[op[s].id].path))
    /\ op' = [op EXCEPT ![s].pc = "done", ![s].result = "ok"]
    /\ UNCHANGED <<onDelete, pending, query, concurrent, ops, faults>>

----------------------------------------------------------------------------
(* Pre-remove middleware (lines 91-130) and the remove it guards            *)

\* lines 91-101: a stored document loaded and removed, or a document that
\* was never saved (no path)
preRemove(s, id) ==
    LET stored == id \in DOMAIN store
        loaded == IF stored THEN store[id] ELSE Rec(NoParent, NoPath)
    IN /\ CanStart(s)
       /\ Loadable(id)
       /\ ops' = ops + 1
       /\ op' = [op EXCEPT ![s] =
                   [kind |-> "remove",
                    pc |-> IF loaded.path = NoPath THEN "commit"
                           ELSE IF onDelete = "DELETE" THEN "bulk"
                           ELSE "findChildren",
                    id |-> id, isNew |-> ~stored, isParentChange |-> FALSE,
                    parent |-> loaded.parent, path |-> loaded.path,
                    previousPath |-> NoPath, scan |-> {}, pre |-> store,
                    result |-> "none", failed |-> FALSE]]
       /\ query' = NoQuery
       /\ UNCHANGED <<store, onDelete, pending, concurrent, faults>>

\* line 95: the filtered remove of the subtree is done, next()
removeSubtree(s) ==
    /\ op[s].kind = "remove" /\ op[s].pc = "bulk"
    /\ store' = Del(store, {x \in DOMAIN store :
                              SubtreeFilter(store[x].path, op[s].path)})
    /\ op' = [op EXCEPT ![s].pc = "commit"]
    /\ UNCHANGED <<onDelete, pending, query, concurrent, ops, faults>>

\* lines 103-105: the cursor over the direct children
findChildrenCallback(s) ==
    /\ op[s].kind = "remove" /\ op[s].pc = "findChildren"
    /\ op' = [op EXCEPT ![s].scan = ScanParent(store, op[s].id),
                        ![s].pc = "stream"]
    /\ UNCHANGED <<store, onDelete, pending, query, concurrent, ops, faults>>

\* lines 106-110: one child, its parent reassigned by a point update
streamOnData(s) ==
    /\ op[s].kind = "remove" /\ op[s].pc = "stream"
    /\ \E d \in op[s].scan :
         /\ pending' = pending \cup {Update(s, d.id, "parent", op[s].parent)}
         /\ op' = [op EXCEPT ![s].scan = op[s].scan \ {d}]
    /\ UNCHANGED <<store, onDelete, query, concurrent, ops, faults>>

\* lines 111-113: the children cursor is exhausted, the path scan is issued
streamOnClose(s) ==
    /\ op[s].kind = "remove" /\ op[s].pc = "stream"
    /\ op[s].scan = {}
    /\ op' = [op EXCEPT ![s].pc = "findPaths"]
    /\ UNCHANGED <<store, onDelete, pending, query, concurrent, ops, faults>>

\* lines 113-115: the cursor over the paths that contain id + separator
findPathsCallback(s) ==
    /\ op[s].kind = "remove" /\ op[s].pc = "findPaths"
    /\ op' = [op EXCEPT ![s].scan = ScanSegment(store, op[s].id),
                        ![s].pc = "subStream"]
    /\ UNCHANGED <<store, onDelete, pending, query, concurrent, ops, faults>>

\* lines 116-121: one document, the segment spliced out by a point update
subStreamOnData(s) ==
    /\ op[s].kind = "remove" /\ op[s].pc = "subStream"
    /\ \E d \in op[s].scan :
         /\ pending' = pending \cup
              {Update(s, d.id, "path", SpliceSegment(d.path, op[s].id))}
         /\ op' = [op EXCEPT ![s].scan = op[s].scan \ {d}]
    /\ UNCHANGED <<store, onDelete, query, concurrent, ops, faults>>

\* line 122: the path cursor is exhausted, next(); a next that follows a
\* next(err) is ignored
subStreamOnClose(s) ==
    /\ op[s].kind = "remove" /\ op[s].pc = "subStream"
    /\ op[s].scan = {}
    /\ op' = [op EXCEPT ![s].pc = IF op[s].result = "error" THEN "done"
                                  ELSE "commit"]
    /\ UNCHANGED <<store, onDelete, pending, query, concurrent, ops, faults>>

\* after next(): the document itself is removed and the remove reports
remove(s) ==
    /\ op[s].kind = "remove" /\ op[s].pc = "commit"
    /\ store' = Del(store, {op[s].id})
    /\ op' = [op EXCEPT ![s].pc = "done", ![s].result = "ok"]
    /\ UNCHANGED <<onDelete, pending, query, concurrent, ops, faults>>

----------------------------------------------------------------------------
(* The store applies a point update (lines 70, 107, 118)                    *)

storeUpdate(u) ==
    /\ u \in pending
    /\ store' = SetField(store, u.id, u.field, u.value)
    /\ pending' = pending \ {u}
    /\ UNCHANGED <<onDelete, op, query, concurrent, ops, faults>>

----------------------------------------------------------------------------
(* Store calls that fail                                                    *)

\* next has been called for caller s's operation
NextCalled(s) ==
    op[s].result # "none" \/ op[s].pc \in {"commit", "done", "thrown"}

\* The store fails one call of caller s's operation
Fails(s) ==
    /\ faults > 0
    /\ faults' = faults - 1

\* next(err) before anything was issued (lines 57, 65, 95, 104): the
\* operation ends with the error
EndsWithError(s) ==
    op' = [op EXCEPT ![s].pc = "done", ![s].result = "error",
                     ![s].failed = TRUE]

\* next(err) from a stream's 'error' event (lines 75, 123, 126): the
\* stream hands over no more documents and closes
StreamError(s) ==
    op' = [op EXCEPT ![s].result = IF NextCalled(s) THEN @ ELSE "error",
                     ![s].scan = {}, ![s].failed = TRUE]

\* line 57: the lookup of the parent fails
findOneError(s) ==
    /\ op[s].kind = "save" /\ op[s].pc = "findOne"
    /\ Fails(s) /\ EndsWithError(s)
    /\ UNCHANGED <<store, onDelete, pending, query, concurrent, ops>>

\* line 65: the scan of the descendants fails
findError(s) ==
    /\ op[s].kind = "save" /\ op[s].pc = "find"
    /\ Fails(s) /\ EndsWithError(s)
    /\ UNCHANGED <<store, onDelete, pending, query, concurrent, ops>>

\* line 75: the cursor of the descendants fails
saveStreamOnError(s) ==
    /\ op[s].kind = "save" /\ op[s].pc = "stream"
    /\ Fails(s) /\ StreamError(s)
    /\ UNCHANGED <<store, onDelete, pending, query, concurrent, ops>>

\* line 95: the filtered remove fails, next(err)
removeSubtreeError(s) ==
    /\ op[s].kind = "remove" /\ op[s].pc = "bulk"
    /\ Fails(s) /\ EndsWithError(s)
    /\ UNCHANGED <<store, onDelete, pending, query, concurrent, ops>>

\* line 104: the scan of the children fails
findChildrenError(s) ==
    /\ op[s].kind = "remove" /\ op[s].pc = "findChildren"
    /\ Fails(s) /\ EndsWithError(s)
    /\ UNCHANGED <<store, onDelete, pending, query, concurrent, ops>>

\* line 126: the cursor of the children fails; its 'close' still issues
\* the path scan
streamOnError(s) ==
    /\ op[s].kind = "remove" /\ op[s].pc = "stream"
    /\ Fails(s) /\ StreamError(s)
    /\ UNCHANGED <<store, onDelete, pending, query, concurrent, ops>>

\* lines 113-115: the path scan fails; err is not looked at and cursor is
\* undefined, so cursor.stream() throws and next is never called
findPathsError(s) ==
    /\ op[s].kind = "remove" /\ op[s].pc = "findPaths"
    /\ Fails(s)
    /\ op' = [op EXCEPT ![s].pc = "thrown",
                        ![s].result = IF op[s].result = "error" THEN "error"
                                      ELSE "TypeError",
                        ![s].failed = TRUE]
    /\ UNCHANGED <<store, onDelete, pending, query, concurrent, ops>>

\* line 123: the cursor of the paths fails
subStreamOnError(s) ==
    /\ op[s].kind = "remove" /\ op[s].pc = "subStream"
    /\ Fails(s) /\ StreamError(s)
    /\ UNCHANGED <<store, onDelete, pending, query, concurrent, ops>>

\* lines 71, 108, 119: a point update fails and its callback calls
\* next(err), which counts only if next was not called before
storeUpdateError(u) ==
    /\ u \in pending
    /\ Fails(u.slot)
    /\ pending' = pending \ {u}
    /\ op' = [op EXCEPT ![u.slot].result = IF NextCalled(u.slot) THEN @
                                           ELSE "error",
                        ![u.slot].failed = TRUE]
    /\ UNCHANGED <<store, onDelete, query, concurrent, ops>>

----------------------------------------------------------------------------
(* Query accessors (lines 139-180), called on a freshly loaded document     *)
(* while no operation is running                                            *)

Range(q) == {q[i] : i \in 1..Len(q)}

\* The orders in which the store may return the records of a set
Orders(S) ==
    {q \in [1..Cardinality(S) -> S] : \A i, j \in 1..Cardinality(S) :
                                         q[i] = q[j] => i = j}

\* this.path of the document the accessor is called on
LoadedPath(id) == IF id \in DOMAIN store THEN store[id].path ELSE NoPath

\* As ChildrenFilter, without lines 140-143: a callback given as first
\* argument is a truthy recursive.
ChildrenFilterNoShift(rec, id, path, recursive) ==
    IF recursive # "false" THEN SubtreeFilter(rec.path, path)
    ELSE ParentFilter(rec.parent, id)

\* lines 140-144: the filter of getChildren, as a predicate on a record
ChildrenFilter(rec, id, path, recursive) ==
    IF recursive = "true" THEN SubtreeFilter(rec.path, path)
    ELSE ParentFilter(rec.parent, id)

\* lines 165-170: the ids of getAncestors
AncestorIds(path) ==
    IF path # NoPath THEN Pop(Split(path, pathSeparator)) ELSE <<>>

Asked(kind, id) ==
    /\ Quiescent
    /\ op' = [s \in Slots |-> IdleOp]
    /\ UNCHANGED <<store, onDelete, pending, concurrent, ops, faults>>

\* lines 139-146; recursive is true, false or left out
getChildren(id, recursive) ==
    /\ id \in DOMAIN store
    /\ Asked("getChildren", id)
    /\ query' = [NoQuery EXCEPT
         !.kind = "getChildren", !.id = id, !.recursive = recursive,
         !.docs = {x \in DOMAIN store :
                     ChildrenFilter(store[x], id, store[id].path, recursive)}]

\* lines 154-156
getParent(id) ==
    /\ id \in DOMAIN store
    /\ Asked("getParent", id)
    /\ query' = [NoQuery EXCEPT
         !.kind = "getParent", !.id = id,
         !.docs = {x \in DOMAIN store : x = store[id].parent}]

\* lines 164-173: the store returns the matching records in an order of
\* its own
getAncestors(id) ==
    /\ Loadable(id)
    /\ Asked("getAncestors", id)
    /\ \E q \in Orders(Range(AncestorIds(LoadedPath(id))) \cap DOMAIN store) :
         query' = [NoQuery EXCEPT
            !.kind = "getAncestors", !.id = id, !.list = q]

\* lines 178-180
level(id) ==
    /\ Loadable(id)
    /\ Asked("level", id)
    /\ query' = [NoQuery EXCEPT
         !.kind = "level", !.id = id,
         !.level = virtualPropLevel(LoadedPath(id))]

----------------------------------------------------------------------------
Next ==
    \/ \E s \in Slots, id \in Ids, p \in Ids \cup {NoParent} : preSave(s, id, p)
    \/ \E s \in Slots : findOneCallback(s)
    \/ \E s \in Slots : findCallback(s)
    \/ \E s \in Slots : saveStreamOnData(s)
    \/ \E s \in Slots : saveStreamOnClose(s)
    \/ \E s \in Slots : save(s)
    \/ \E s \in Slots, id \in Ids : preRemove(s, id)
    \/ \E s \in Slots : removeSubtree(s)
    \/ \E s \in Slots : findChildrenCallback(s)
    \/ \E s \in Slots : streamOnData(s)
    \/ \E s \in Slots : streamOnClose(s)
    \/ \E s \in Slots : findPathsCallback(s)
    \/ \E s \in Slots : subStreamOnData(s)
    \/ \E s \in Slots : subStreamOnClose(s)
    \/ \E s \in Slots : remove(s)
    \/ \E u \in pending : storeUpdate(u)
    \/ \E id \in Ids, r \in {"true", "false", "omitted"} : getChildren(id, r)
    \/ \E id \in Ids : getParent(id)
    \/ \E id \in Ids : getAncestors(id)
    \/ \E id \in Ids : level(id)

Spec == Init /\ [][Next]_vars

----------------------------------------------------------------------------
(* The prefix scans as functions of the strings they are given: one         *)
(* operation or query on a store whose ids are strings of different         *)
(* lengths, one a prefix or a suffix of another. this._id.toString() (lines *)
(* 51, 60) can be any string to the patterns of lines 64, 95 and 144; the   *)
(* ids of Spec, strings of ObjectIds, never differ in length.               *)

W1 == <<"1">>
W12 == <<"1", "2">>
W2 == <<"2">>
WideIds == {W1, W12, W2}

\* x reaches a root by at most n parent pointers of par
RECURSIVE RootIn(_, _, _)
RootIn(par, x, n) ==
    \/ par[x] = NoParent
    \/ n > 0 /\ RootIn(par, par[x], n - 1)

\* The path the saves of lines 51 and 60 give x under the parents par
RECURSIVE PathFrom(_, _)
PathFrom(par, x) ==
    IF par[x] = NoParent THEN RootPath(x)
    ELSE ChildPath(PathFrom(par, par[x]), x)

\* The store that saves leave for the parents par
Forest(par) == [x \in DOMAIN par |-> Rec(par[x], PathFrom(par, x))]

\* The forests over WideIds, as saves store them
WideStores ==
    {Forest(par) :
       par \in {f \in UNION {[S -> S \cup {NoParent}] : S \in SUBSET WideIds} :
                 \A x \in DOMAIN f : RootIn(f, x, Cardinality(DOMAIN f))}}

InitWide ==
    /\ store \in WideStores
    /\ onDelete \in {"REPARENT", "DELETE"}
    /\ op = [s \in Slots |-> IdleOp]
    /\ pending = {}
    /\ query = NoQuery
    /\ concurrent = FALSE
    /\ ops = MaxOps - 1
    /\ faults = 0

NextWide ==
    \/ \E s \in Slots, id \in WideIds, p \in WideIds \cup {NoParent} :
         preSave(s, id, p)
    \/ \E s \in Slots : findOneCallback(s)
    \/ \E s \in Slots : findCallback(s)
    \/ \E s \in Slots : saveStreamOnData(s)
    \/ \E s \in Slots : saveStreamOnClose(s)
    \/ \E s \in Slots : save(s)
    \/ \E s \in Slots, id \in WideIds : preRemove(s, id)
    \/ \E s \in Slots : removeSubtree(s)
    \/ \E s \in Slots : findChildrenCallback(s)
    \/ \E s \in Slots : streamOnData(s)
    \/ \E s \in Slots : streamOnClose(s)
    \/ \E s \in Slots : findPathsCallback(s)
    \/ \E s \in Slots : subStreamOnData(s)
    \/ \E s \in Slots : subStreamOnClose(s)
    \/ \E s \in Slots : remove(s)
    \/ \E u \in pending : storeUpdate(u)
    \/ \E id \in WideIds, r \in {"true", "false", "omitted"} : getChildren(id, r)

SpecWide == InitWide /\ [][NextWide]_vars

----------------------------------------------------------------------------
(* The plugin on a store that may fail calls                                *)

InitFail ==
    /\ store = EmptyStore
    /\ onDelete \in {"REPARENT", "DELETE"}
    /\ op = [s \in Slots |-> IdleOp]
    /\ pending = {}
    /\ query = NoQuery
    /\ concurrent = FALSE
    /\ ops = 0
    /\ faults = MaxFaults

NextFail ==
    \/ Next
    \/ \E s \in Slots : findOneError(s)
    \/ \E s \in Slots : findError(s)
    \/ \E s \in Slots : saveStreamOnError(s)
    \/ \E s \in Slots : removeSubtreeError(s)
    \/ \E s \in Slots : findChildrenError(s)
    \/ \E s \in Slots : streamOnError(s)
    \/ \E s \in Slots : findPathsError(s)
    \/ \E s \in Slots : subStreamOnError(s)
    \/ \E u \in pending : storeUpdateError(u)

SpecFail == InitFail /\ [][NextFail]_vars

----------------------------------------------------------------------------
(* Two callers whose operations overlap, one operation each, on a stored    *)
(* forest                                                                   *)

\* Two roots; a chain of two and a root; a root with two children; two
\* chains of two
ConcStores ==
    {Forest(IdA :> NoParent @@ IdB :> NoParent),
     Forest(IdA :> NoParent @@ IdB :> IdA @@ IdC :> NoParent),
     Forest(IdA :> NoParent @@ IdB :> IdA @@ IdC :> IdA),
     Forest(IdA :> NoParent @@ IdB :> IdA @@ IdC :> NoParent @@ IdD :> IdC)}

InitConc ==
    /\ store \in ConcStores
    /\ onDelete \in {"REPARENT", "DELETE"}
    /\ op = [s \in Slots |-> IdleOp]
    /\ pending = {}
    /\ query = NoQuery
    /\ concurrent = TRUE
    /\ ops = 0
    /\ faults = 0

NextConc ==
    \/ \E s \in Slots, id \in Ids, p \in Ids \cup {NoParent} : preSave(s, id, p)
    \/ \E s \in Slots : findOneCallback(s)
    \/ \E s \in Slots : findCallback(s)
    \/ \E s \in Slots : saveStreamOnData(s)
    \/ \E s \in Slots : saveStreamOnClose(s)
    \/ \E s \in Slots : save(s)
    \/ \E s \in Slots, id \in Ids : preRemove(s, id)
    \/ \E s \in Slots : removeSubtree(s)
    \/ \E s \in Slots : findChildrenCallback(s)
    \/ \E s \in Slots : streamOnData(s)
    \/ \E s \in Slots : streamOnClose(s)
    \/ \E s \in Slots : findPathsCallback(s)
    \/ \E s \in Slots : subStreamOnData(s)
    \/ \E s \in Slots : subStreamOnClose(s)
    \/ \E s \in Slots : remove(s)
    \/ \E u \in pending : storeUpdate(u)

SpecConc == InitConc /\ [][NextConc]_vars

----------------------------------------------------------------------------
(* Vocabulary of the properties, stated on parent pointers and on segments, *)
(* not with the operators of the middleware                                 *)

Sep == "#"

\* The path invariant of one record of st
PathInvariantAt(st, id) ==
    LET r == st[id]
    IN /\ r.path # <<>>
       /\ Len(r.path) >= Len(id)
       /\ SubSeq(r.path, Len(r.path) - Len(id) + 1, Len(r.path)) = id
       /\ Len(r.path) > Len(id) => r.path[Len(r.path) - Len(id)] = Sep
       /\ IF r.parent = NoParent THEN r.path = id
          ELSE /\ r.parent \in DOMAIN st
               /\ r.path = st[r.parent].path \o <<Sep>> \o id

ValidTree(st) == \A id \in DOMAIN st : PathInvariantAt(st, id)

\* The ancestors of id by parent pointers, root first (n bounds the walk)
RECURSIVE ChainUp(_, _, _)
ChainUp(st, id, n) ==
    IF n = 0 \/ id \notin DOMAIN st \/ st[id].parent = NoParent THEN <<>>
    ELSE ChainUp(st, st[id].parent, n - 1) \o <<st[id].parent>>

ParentChain(st, id) == ChainUp(st, id, Cardinality(DOMAIN st))

Children(st, id) == {x \in DOMAIN st : st[x].parent = id}

Descendants(st, id) ==
    {x \in DOMAIN st : \E i \in 1..Len(ParentChain(st, x)) :
                          ParentChain(st, x)[i] = id}

\* Number of separators in a path
SepCount(path) == Cardinality({i \in 1..Len(path) : path[i] = Sep})

\* p begins with q followed by a separator
Under(p, q) ==
    /\ Len(p) > Len(q)
    /\ \A i \in 1..Len(q) : p[i] = q[i]
    /\ p[Len(q) + 1] = Sep

\* the part of p after its first n characters
After(p, n) == [i \in 1..(Len(p) - n) |-> p[i + n]]

\* The segments of a path joined again
RECURSIVE Join(_)
Join(segs) ==
    IF segs = <<>> THEN <<>>
    ELSE IF Len(segs) = 1 THEN segs[1]
    ELSE segs[1] \o <<Sep>> \o Join(Tail(segs))

\* segs without its first segment equal to id
RECURSIVE Without(_, _)
Without(segs, id) ==
    IF segs = <<>> THEN <<>>
    ELSE IF segs[1] = id THEN Tail(segs)
    ELSE <<segs[1]>> \o Without(Tail(segs), id)

\* id is a segment of path other than the last
AncestorSegment(path, id) ==
    \E i \in 1..(Len(Split(path, <<Sep>>)) - 1) : Split(path, <<Sep>>)[i] = id

\* Caller s's operation has reported and the store has applied every point
\* update it issued
Settled(s) == op[s].pc = "done" /\ \A u \in pending : u.slot # s

Chain4 ==
    (IdA :> Rec(NoParent, IdA)) @@
    (IdB :> Rec(IdA, IdA \o <<Sep>> \o IdB)) @@
    (IdC :> Rec(IdB, IdA \o <<Sep>> \o IdB \o <<Sep>> \o IdC)) @@
    (IdD :> Rec(IdC, IdA \o <<Sep>> \o IdB \o <<Sep>> \o IdC \o <<Sep>> \o IdD))

----------------------------------------------------------------------------
\* C1: whenever no operation is running and no update is in flight, every
\* record of the store satisfies the path invariant (non-empty path ending
\* in the own id; the own id for a root, else the parent's path, the
\* separator and the own id).
C1_PathInvariant == Quiescent => ValidTree(store)

\* What does hold: a completed operation on a store satisfying the path
\* invariant leaves it satisfied, unless it re-parented a stored node to
\* root, under itself or under one of its descendants.
PathInvariantPreserved ==
    \A s \in Slots :
      (/\ Quiescent /\ op[s].pc = "done" /\ ValidTree(op[s].pre)
       /\ ~(/\ op[s].kind = "save" /\ ~op[s].isNew /\ op[s].isParentChange
            /\ \/ op[s].parent = NoParent
               \/ op[s].parent = op[s].id
               \/ op[s].parent \in Descendants(op[s].pre, op[s].id)))
      => ValidTree(store)

\* C2: a completed save of a new node whose parent is null or exists left
\* the node with path = own id (no parent) or parent's stored path +
\* separator + own id, and every other record as it was.
C2_CreatePath ==
    \A s \in Slots :
      (/\ op[s].kind = "save" /\ op[s].pc = "done" /\ op[s].isNew
       /\ op[s].parent \in (DOMAIN op[s].pre) \cup {NoParent})
      => LET id == op[s].id
             pre == op[s].pre
         IN /\ DOMAIN store = (DOMAIN pre) \cup {id}
            /\ store[id].parent = op[s].parent
            /\ store[id].path =
                 IF op[s].parent = NoParent THEN id
                 ELSE pre[op[s].parent].path \o <<Sep>> \o id
            /\ \A x \in DOMAIN pre : store[x] = pre[x]

C2_Witness ==
    \E s \in Slots :
      /\ op[s].kind = "save" /\ op[s].pc = "done" /\ op[s].isNew
      /\ op[s].id = IdC /\ op[s].parent = IdB
      /\ IdB \in DOMAIN op[s].pre /\ op[s].pre[IdB].parent = IdA
      /\ store[IdC].path = IdA \o <<Sep>> \o IdB \o <<Sep>> \o IdC

\* C3: once a save that re-parented a stored node under an existing
\* parent P has completed, the node's path is P's stored path + separator
\* + id, every record whose path began with oldPath + separator has the
\* new path followed by its old path without the leading oldPath, and every
\* other record is as it was.
C3_ReparentCascade ==
    \A s \in Slots :
      (/\ Settled(s) /\ op[s].kind = "save" /\ ~op[s].isNew
       /\ op[s].isParentChange /\ op[s].parent \in DOMAIN op[s].pre)
      => LET id == op[s].id
             pre == op[s].pre
             oldPath == pre[id].path
             newPath == pre[op[s].parent].path \o <<Sep>> \o id
         IN /\ DOMAIN store = DOMAIN pre
            /\ store[id] = Rec(op[s].parent, newPath)
            /\ \A x \in (DOMAIN pre) \ {id} :
                 IF Under(pre[x].path, oldPath)
                 THEN store[x] = Rec(pre[x].parent,
                                     newPath \o After(pre[x].path, Len(oldPath)))
                 ELSE store[x] = pre[x]

\* the chain A, B, C and the root D; B moved under D takes C along
C3_Witness ==
    \E s \in Slots :
      /\ Settled(s) /\ op[s].kind = "save" /\ ~op[s].isNew
      /\ op[s].id = IdB /\ op[s].parent = IdD
      /\ op[s].pre[IdB].parent = IdA /\ op[s].pre[IdD].parent = NoParent
      /\ op[s].pre[IdC].path = IdA \o <<Sep>> \o IdB \o <<Sep>> \o IdC
      /\ store[IdB].path = IdD \o <<Sep>> \o IdB
      /\ store[IdC].path = IdD \o <<Sep>> \o IdB \o <<Sep>> \o IdC

\* C4: once a save that re-parented a node of a store satisfying the path
\* invariant to root has completed, the node's path is its own id and every
\* record whose path began with the old path + separator has the own id
\* followed by its old path without the leading old path (A, B, C chained:
\* B to root gives C the path B#C).
C4_RootReparentCascades ==
    \A s \in Slots :
      (/\ Settled(s) /\ op[s].kind = "save" /\ ~op[s].isNew
       /\ op[s].isParentChange /\ op[s].parent = NoParent
       /\ ValidTree(op[s].pre))
      => LET id == op[s].id
             pre == op[s].pre
         IN /\ store[id].path = id
            /\ \A x \in (DOMAIN pre) \ {id} :
                 Under(pre[x].path, pre[id].path)
                 => store[x].path = id \o After(pre[x].path, Len(pre[id].path))

\* C5: once a remove under REPARENT has completed, the node is gone, every
\* record whose parent was the node has the node's parent, every record
\* that had the node's id as a segment of its path has that path without
\* that one segment, and nothing else changed.
C5_RemoveReparents ==
    \A s \in Slots :
      (/\ Settled(s) /\ op[s].kind = "remove" /\ onDelete = "REPARENT"
       /\ op[s].id \in DOMAIN op[s].pre)
      => LET id == op[s].id
             pre == op[s].pre
         IN /\ DOMAIN store = (DOMAIN pre) \ {id}
            /\ \A x \in DOMAIN store :
                 /\ store[x].parent = IF pre[x].parent = id THEN pre[id].parent
                                      ELSE pre[x].parent
                 /\ store[x].path =
                      IF AncestorSegment(pre[x].path, id)
                      THEN Join(Without(Split(pre[x].path, <<Sep>>), id))
                      ELSE pre[x].path

\* the chain A, B, C, D without B
C5_Witness ==
    \E s \in Slots :
      /\ Settled(s) /\ op[s].kind = "remove" /\ onDelete = "REPARENT"
      /\ op[s].id = IdB /\ op[s].pre = Chain4
      /\ store[IdC] = Rec(IdA, IdA \o <<Sep>> \o IdC)
      /\ store[IdD] = Rec(IdC, IdA \o <<Sep>> \o IdC \o <<Sep>> \o IdD)

\* C6: once a remove under DELETE has completed, the store holds exactly
\* the records it held before, unchanged, except the node and the records
\* whose path began with the node's path + separator.
C6_RemoveSubtree ==
    \A s \in Slots :
      (/\ op[s].pc = "done" /\ op[s].kind = "remove" /\ onDelete = "DELETE"
       /\ op[s].id \in DOMAIN op[s].pre)
      => LET id == op[s].id
             pre == op[s].pre
         IN /\ DOMAIN store =
                 {x \in DOMAIN pre : x # id /\ ~Under(pre[x].path, pre[id].path)}
            /\ \A x \in DOMAIN store : store[x] = pre[x]

\* the chain A, B, C, D: removing B leaves A alone
C6_Witness ==
    \E s \in Slots :
      /\ op[s].pc = "done" /\ op[s].kind = "remove" /\ onDelete = "DELETE"
      /\ op[s].id = IdB /\ op[s].pre = Chain4
      /\ store = (IdA :> Rec(NoParent, IdA))

\* C7: a save of a new or re-parented node whose parent is not in the
\* store ends reported to its caller with a BrokenReferenceError, and the
\* store is as it was.
C7_BrokenReference ==
    \A s \in Slots :
      (/\ op[s].kind = "save" /\ (op[s].isNew \/ op[s].isParentChange)
       /\ op[s].parent # NoParent /\ op[s].parent \notin DOMAIN op[s].pre
       /\ op[s].pc # "findOne")
      => /\ op[s].pc = "done"
         /\ op[s].result = "BrokenReferenceError"
         /\ store = op[s].pre

\* C8: on a store that satisfies the path invariant, getChildren(true)
\* returned exactly the descendants by parent pointers, getChildren(false)
\* and getChildren() exactly the records whose parent is the node, and
\* never the node itself.
C8_GetChildren ==
    (query.kind = "getChildren" /\ ValidTree(store))
    => /\ query.docs = IF query.recursive = "true"
                       THEN Descendants(store, query.id)
                       ELSE Children(store, query.id)
       /\ query.id \notin query.docs

\* the chain A, B, C, D: all the descendants of A
C8_Witness ==
    /\ query.kind = "getChildren" /\ query.recursive = "true"
    /\ query.id = IdA /\ store = Chain4
    /\ query.docs = {IdB, IdC, IdD}

\* C9: on a store that satisfies the path invariant, getAncestors returned
\* the ancestors by parent pointers, root first, whatever the order of the
\* store.
C9_GetAncestorsOrdered ==
    (query.kind = "getAncestors" /\ ValidTree(store))
    => query.list = ParentChain(store, query.id)

\* C10: level is 0 for an absent path and else the number of separators
\* plus one; on a store that satisfies the path invariant a root has level
\* 1 and any other node one more than its parent.
C10_Level ==
    query.kind = "level"
    => /\ query.level = IF LoadedPath(query.id) = <<>> THEN 0
                        ELSE SepCount(LoadedPath(query.id)) + 1
       /\ (ValidTree(store) /\ query.id \in DOMAIN store)
          => query.level =
               IF store[query.id].parent = NoParent THEN 1
               ELSE 1 + Len(ParentChain(store, store[query.id].parent)) + 1

\* D, the last of the chain A, B, C, D, has level 4
C10_Witness ==
    /\ query.kind = "level" /\ query.id = IdD /\ store = Chain4
    /\ query.level = 4

----------------------------------------------------------------------------
\* C12: a re-parenting save has not reported success while a point update
\* of its own cascade is still in flight.
C12_SaveAwaitsCascade ==
    \A s \in Slots :
      (op[s].kind = "save" /\ op[s].pc = "done" /\ op[s].result = "ok")
      => \A u \in pending : u.slot # s

\* C14: while the cascade of a re-parent of a stored node under another
\* node runs (its scan has answered with records to rewrite, or one of its
\* point updates is in flight), the node's own record already carries the
\* new parent and the new path.
C14_OwnRecordFirst ==
    \A s \in Slots :
      (/\ op[s].kind = "save" /\ ~op[s].isNew /\ op[s].isParentChange
       /\ op[s].id \in DOMAIN store
       /\ ValidTree(op[s].pre)
       /\ op[s].parent \notin {op[s].id} \cup Descendants(op[s].pre, op[s].id)
       /\ \/ op[s].pc = "stream" /\ op[s].scan # {}
          \/ \E u \in pending : u.slot = s)
      => /\ store[op[s].id].parent = op[s].parent
         /\ store[op[s].id].path = op[s].path

\* C15: in a REPARENT removal the path scan of the second sweep is issued
\* only when no parent reassignment of the first sweep is in flight, and
\* the removal goes on to its own record only when no point update of
\* either sweep is in flight.
C15_SweepsAwaitAcks ==
    \A s \in Slots :
      op[s].kind = "remove" =>
        /\ op[s].pc \in {"findPaths", "subStream"}
             => \A u \in pending : ~(u.slot = s /\ u.field = "parent")
        /\ op[s].pc \in {"commit", "done"}
             => \A u \in pending : u.slot # s

\* C20: whenever no operation is running and no update is in flight, no
\* node is its own ancestor by parent pointers and no path holds the id of
\* its node more than once.
C20_Acyclic ==
    Quiescent =>
      \A x \in DOMAIN store :
        /\ x \notin Descendants(store, x)
        /\ Cardinality({i \in 1..Len(Split(store[x].path, <<Sep>>)) :
                          Split(store[x].path, <<Sep>>)[i] = x}) <= 1

----------------------------------------------------------------------------
(* One cascade as the set of point updates it issues                        *)

\* Caller s's operation is a re-parent of a stored node under a stored
\* parent, or a REPARENT removal of a stored node
Cascading(s) ==
    \/ /\ op[s].kind = "save" /\ ~op[s].isNew /\ op[s].isParentChange
       /\ op[s].parent \in DOMAIN op[s].pre
    \/ /\ op[s].kind = "remove" /\ onDelete = "REPARENT"
       /\ op[s].id \in DOMAIN op[s].pre

\* The point updates the cascade of caller s issues on the store it began on
IssuedBy(s) ==
    IF op[s].kind = "save"
    THEN {Update(s, d.id, "path",
                 RewritePrefix(d.path, op[s].previousPath, op[s].path)) :
            d \in ScanSubtree(op[s].pre, op[s].previousPath)}
    ELSE {Update(s, d.id, "parent", op[s].parent) :
            d \in ScanParent(op[s].pre, op[s].id)}
         \cup {Update(s, d.id, "path", SpliceSegment(d.path, op[s].id)) :
                 d \in ScanSegment(op[s].pre, op[s].id)}

----------------------------------------------------------------------------
(* One operation run alone, as one step                                     *)

\* The store after the save of id with parent, or the removal of id, run
\* alone on st to its end with all its updates applied
Atomic(st, kind, id, parent) ==
    LET stored == id \in DOMAIN st
        loaded == IF stored THEN st[id] ELSE Rec(NoParent, NoPath)
        isParentChange == IF stored THEN parent # loaded.parent
                          ELSE parent # NoParent
        newPath == ChildPath(st[parent].path, id)
        moved == [x \in DOMAIN st |->
                    IF SubtreeFilter(st[x].path, loaded.path)
                    THEN Rec(st[x].parent,
                             RewritePrefix(st[x].path, loaded.path, newPath))
                    ELSE st[x]]
        orphaned == [x \in DOMAIN st |->
                       Rec(IF ParentFilter(st[x].parent, id) THEN loaded.parent
                           ELSE st[x].parent,
                           IF SegmentFilter(st[x].path, id)
                           THEN SpliceSegment(st[x].path, id)
                           ELSE st[x].path)]
    IN IF kind = "save"
       THEN IF stored /\ ~isParentChange THEN st
            ELSE IF parent = NoParent
            THEN Put(st, id, Rec(NoParent, RootPath(id)))
            ELSE IF parent \notin DOMAIN st THEN st
            ELSE Put(moved, id, Rec(parent, newPath))
       ELSE IF ~stored THEN st
            ELSE IF onDelete = "DELETE"
            THEN Del(st, {id} \cup {x \in DOMAIN st :
                                      SubtreeFilter(st[x].path, loaded.path)})
            ELSE Del(orphaned, {id})

\* C16: once a re-parent or a REPARENT removal has completed and the store
\* has applied all its point updates, in whatever order, the store is the
\* one the operation gives when run alone as one step; and any two point
\* updates of one operation that are in flight together (a parent
\* reassignment and a path rewrite of a removal among them) give the same
\* store in either order.
C16_OrderIndependent ==
    /\ \A s \in Slots :
         (Settled(s) /\ Cascading(s))
         => store = Atomic(op[s].pre, op[s].kind, op[s].id, op[s].parent)
    /\ \A u, v \in pending :
         u.slot = v.slot
         => SetField(SetField(store, u.id, u.field, u.value),
                     v.id, v.field, v.value)
            = SetField(SetField(store, v.id, v.field, v.value),
                       u.id, u.field, u.value)

\* a removal that reassigned the parent and rewrote the path of one record,
\* and rewrote the path of another
C16_Witness ==
    \E s \in Slots :
      /\ Settled(s) /\ Cascading(s) /\ op[s].kind = "remove"
      /\ \E u, v, w \in IssuedBy(s) :
           /\ u.id = v.id /\ u.field = "parent" /\ v.field = "path"
           /\ w.id # u.id
           /\ store[u.id] = Rec(u.value, v.value)
           /\ store[w.id].path = w.value
           /\ op[s].pre[u.id] # store[u.id]

\* C17: on a store that satisfies the path invariant after a re-parent of a
\* stored node has completed with all its updates applied, running the
\* cascade again with the same old and new prefix (the scan of lines 64-67,
\* the rewrite of line 69) changes no record's path.
C17_CascadeIdempotent ==
    \A s \in Slots :
      (/\ Settled(s) /\ op[s].kind = "save" /\ ~op[s].isNew
       /\ op[s].isParentChange /\ op[s].parent \in DOMAIN op[s].pre
       /\ ValidTree(store))
      => \A d \in ScanSubtree(store, op[s].previousPath) :
           RewritePrefix(d.path, op[s].previousPath, op[s].path) = d.path

\* a completed re-parent that rewrote descendants, from a root to under
\* another node, and left a store satisfying the path invariant
C17_Witness ==
    \E s \in Slots :
      /\ Settled(s) /\ op[s].kind = "save" /\ ~op[s].isNew
      /\ op[s].isParentChange /\ op[s].parent \in DOMAIN op[s].pre
      /\ ValidTree(store)
      /\ op[s].previousPath = op[s].id
      /\ ScanSubtree(op[s].pre, op[s].previousPath) # {}
      /\ \A d \in ScanSubtree(op[s].pre, op[s].previousPath) :
           store[d.id].path =
             RewritePrefix(d.path, op[s].previousPath, op[s].path)

\* id is a segment of path
HasSegment(path, id) ==
    \E i \in 1..Len(Split(path, <<Sep>>)) : Split(path, <<Sep>>)[i] = id

----------------------------------------------------------------------------
\* C11: on a store that satisfies the path invariant, every record the scan
\* of a re-parent cascade yields, every record a point update of that
\* cascade rewrites, every record a DELETE removal deletes besides the node
\* itself, and every record getChildren(true) returns is a descendant of
\* the node by parent pointers; a record whose id merely begins with the
\* node's id ("12" against "1") is none of these.
C11_PrefixScansMatchDescendants ==
    /\ \A s \in Slots :
         (op[s].kind = "save" /\ ValidTree(op[s].pre))
         => /\ \A d \in op[s].scan : d.id \in Descendants(op[s].pre, op[s].id)
            /\ \A u \in pending :
                 u.slot = s => u.id \in Descendants(op[s].pre, op[s].id)
    /\ \A s \in Slots :
         (/\ op[s].kind = "remove" /\ onDelete = "DELETE"
          /\ ValidTree(op[s].pre))
         => (DOMAIN op[s].pre) \ (DOMAIN store)
              \subseteq Descendants(op[s].pre, op[s].id) \cup {op[s].id}
    /\ (/\ query.kind = "getChildren" /\ query.recursive = "true"
        /\ ValidTree(store))
       => query.docs \subseteq Descendants(store, query.id)

\* node "1" with a child, beside the root "12" with a child: the DELETE
\* removal of "1" is done, its child is gone, "12" and its child are there
C11_Witness ==
    \E s \in Slots :
      /\ op[s].kind = "remove" /\ onDelete = "DELETE" /\ op[s].pc = "done"
      /\ op[s].id = W1 /\ ValidTree(op[s].pre)
      /\ W12 \in DOMAIN op[s].pre /\ op[s].pre[W12].parent = NoParent
      /\ W2 \in DOMAIN op[s].pre /\ op[s].pre[W2].parent = W12
      /\ DOMAIN store = {W12, W2}

----------------------------------------------------------------------------
\* C13: when a store call of the cascade of a save or a remove has failed,
\* the operation has not reported success, and once it has ended it has
\* reported the error.
C13_FailureReported ==
    \A s \in Slots :
      op[s].failed =>
        /\ op[s].result # "ok"
        /\ op[s].pc \in {"done", "thrown"} => op[s].result = "error"

----------------------------------------------------------------------------
\* Caller s's operation has ended and the store has applied every point
\* update it issued
Ended(s) == op[s].pc \in {"done", "thrown"} /\ \A u \in pending : u.slot # s

\* Operations that do not overlap have the effect of Atomic
AtomicWhenAlone ==
    \A s \in Slots :
      (~concurrent /\ Ended(s) /\ faults = 0 /\ ~op[s].failed)
      => store = Atomic(op[s].pre, op[s].kind, op[s].id, op[s].parent)

\* a is b, or an ancestor or a descendant of b by the parent pointers of st
Related(st, a, b) ==
    a = b \/ a \in Descendants(st, b) \/ b \in Descendants(st, a)

\* The node a save gives a new parent to, if any
NewParent(o) == IF o.kind = "save" THEN o.parent ELSE NoParent

\* The operations o and p work on disjoint subtrees of st
Disjoint(st, o, p) ==
    /\ ~Related(st, o.id, p.id)
    /\ NewParent(o) # NoParent => ~Related(st, NewParent(o), p.id)
    /\ NewParent(p) # NoParent => ~Related(st, NewParent(p), o.id)

\* C19: when two callers' operations on disjoint subtrees of a store that
\* satisfies the path invariant have overlapped and both have ended with
\* their updates applied, the store is the one that running the first and
\* then the second alone gives, and also the second and then the first.
C19_DisjointSerializable ==
    LET a == op[1]
        b == op[2]
        base == op[1].pre
    IN (/\ concurrent /\ Ended(1) /\ Ended(2)
        /\ ValidTree(base) /\ Disjoint(base, a, b))
       => /\ store = Atomic(Atomic(base, a.kind, a.id, a.parent),
                            b.kind, b.id, b.parent)
          /\ store = Atomic(Atomic(base, b.kind, b.id, b.parent),
                            a.kind, a.id, a.parent)

\* a removal and a re-parent of a stored node on disjoint subtrees, the
\* re-parent begun after the removal had changed the store; both have
\* ended and the re-parent rewrote a descendant
C19_Witness ==
    /\ concurrent /\ Ended(1) /\ Ended(2)
    /\ Disjoint(op[1].pre, op[1], op[2])
    /\ op[1].kind = "remove" /\ op[2].kind = "save" /\ ~op[2].isNew
    /\ op[2].isParentChange
    /\ op[2].pre # op[1].pre
    /\ store # op[2].pre
    /\ \E x \in DOMAIN store : x # op[2].id /\ store[x] # op[2].pre[x]

====
